---- MODULE Spec2Model ----
(***************************************************************************)
(* Model of the scraping engine of linkedin-analyzer-agent                 *)
(* (src/src/core/scraping.py): the rate governor (_respect_rate_limit),    *)
(* the policy checker (check_robots_txt), the two fetch strategies         *)
(* (scrape_with_requests, scrape_with_selenium), the fetch orchestrator    *)
(* (smart_scrape) and the pipeline entry (scrape_linkedin_profile).        *)
(*                                                                         *)
(* Requests are coroutines on one asyncio event loop.  None of the engine  *)
(* methods contains an await that suspends (time.sleep, requests and       *)
(* selenium are blocking calls), so a request that has been scheduled      *)
(* keeps the loop's thread until it returns; `running` holds that thread's *)
(* owner.  Time is an integer number of seconds.                           *)
(***************************************************************************)
EXTENDS Integers, Sequences, FiniteSets

\* ------------------------------------------------------------ bounds
NumTasks == 2          \* requests that arrive in one run
StartTime == 4         \* time.time() at the first step (epoch seconds are far
                       \* above REQUEST_DELAY_MAX; so is StartTime)
MaxUrlLen == 4         \* pieces in a URL string sent to the scrape endpoint
MaxBatchLen == 11      \* urls in a batch request
MaxExperienceElems == 6    \* elements of a page that match the experience selector
MaxSkillElems == 21        \* elements of a page that match the skills selector
MaxExtractCalls == 2       \* calls of the extractor on one fetch result
MaxExperience == 7         \* entries of a record's experience list
MaxSkills == 11            \* entries of a record's skills list
MaxEducation == 3          \* entries of a record's education list
MaxAnalyzeCalls == 2       \* runs of the analyzer on one record
MaxDispatches == 5         \* requests that reach the rate-limit middleware
calls == 2                 \* RateLimitMiddleware(calls=...): requests admitted per period
period == 2                \* RateLimitMiddleware(period=...): seconds (3600 as configured)
MaxTime == 7           \* the environment lets time pass up to here; sleeps
                       \* may carry the clock further

\* --------------------------------------------------------- constants
REQUEST_DELAY_MIN == 1     \* config.py:42
REQUEST_DELAY_MAX == 3     \* config.py:43
RICH_MIN_LENGTH == 100     \* scraping.py:172  len(result['content']) > 100
MAX_EXPERIENCES == 5       \* scraping.py:238  experience_sections[:5]
MAX_SKILLS == 20           \* scraping.py:253  skills_elements[:20]
SECONDS_PER_DAY == 86400   \* profile.py:215  timedelta.days
MAX_BATCH_SIZE == 10       \* api/__init__.py:111  len(profile_urls) > 10

Tasks == 1..NumTasks

Urls == {"https://a.example/in/x", "https://b.example/in/y"}
DefaultUrl == "https://a.example/in/x"

\* urlparse(url).netloc
netloc(u) == IF u = "https://a.example/in/x" THEN "a.example" ELSE "b.example"

Hosts == {netloc(u) : u \in Urls}

\* Content lengths a fetched page can have: empty, exactly the threshold,
\* just above it.
ContentLengths == {0, RICH_MIN_LENGTH, RICH_MIN_LENGTH + 1}

\* Python's None for an Optional[Dict] result; a dict result carries the
\* strategy that produced it ('method') and len(result['content']).
None == [method |-> "none", len |-> 0]
FetchResult(m, n) == [method |-> m, len |-> n]
Results == {None} \cup {FetchResult(m, n) : m \in {"requests", "selenium"}, n \in ContentLengths}

\* bool(result): None is falsy, a non-empty dict is truthy whatever its content
Truthy(r) == r # None

VARIABLES
    now,                \* time.time()
    running,            \* the task that holds the event loop's thread: {t}, or {}
    selenium_driver,    \* self.selenium_driver is not None
    request_count,      \* self.request_count
    last_request_time,  \* self.last_request_time
    pc,                 \* each task's position
    entry,              \* the method the request called
    url,                \* its url argument
    prefer_selenium,    \* its prefer_selenium argument
    req_result,         \* what scrape_with_requests returned to smart_scrape
    sel_result,         \* what scrape_with_selenium returned to smart_scrape
    result,             \* what smart_scrape returned
    req_calls,          \* invocations of scrape_with_requests by this orchestration
    sel_calls,          \* invocations of scrape_with_selenium by this orchestration
    raised,             \* tasks out of whose orchestrator an exception propagated
    robots_outcome,     \* what the exclusion-rules request of the task met
    robots_allowed,     \* what check_robots_txt answered the task
    rl_seen,            \* self.last_request_time as read at line 74
    rl_sleep,           \* sleep_time of line 82 (0: no sleep)
    log,                \* per task: the calls it made, in order
    rl_last,            \* the last completion of _respect_rate_limit
    host_last,          \* per host: time of the last completion for it (0: none)
    robots_calls,       \* per host: calls of check_robots_txt
    robots_fetches,     \* per host: requests for the host's robots.txt
    api_pc,             \* the API handler's position
    endpoint,           \* the route of the request being handled
    profile_url,        \* scrape_profile's argument
    profile_urls,       \* batch_scrape_profiles' argument
    batch_i,            \* index of the url the batch loop is at
    results,            \* batch_scrape_profiles' results list
    response,           \* what the handler answered
    pipeline_calls,     \* calls of scraping_engine.scrape_linkedin_profile
                        \* made by the handler
    scraped_data,       \* extract_linkedin_profile_data's argument
    extracted,          \* what its calls returned, in order, and when
    profile,            \* analyze_profile's argument
    analyses,           \* what its runs returned, in order, and when
    clients,            \* RateLimitMiddleware.clients: ip -> timestamps
    dispatched          \* the requests the middleware has seen, in order:
                        \* client, time, admitted or answered 429

vars == <<now, running, selenium_driver, request_count, last_request_time,
          pc, entry, url, prefer_selenium, req_result, sel_result, result,
          req_calls, sel_calls, raised, robots_outcome, robots_allowed,
          rl_seen, rl_sleep, log, rl_last, host_last, robots_calls, robots_fetches,
          api_pc, endpoint, profile_url, profile_urls, batch_i, results, response,
          pipeline_calls, scraped_data, extracted, profile, analyses,
          clients, dispatched>>

engine_vars == <<selenium_driver, request_count, last_request_time>>
input_vars == <<entry, url, prefer_selenium>>
rl_vars == <<rl_seen, rl_sleep, rl_last, host_last>>
robots_vars == <<robots_outcome, robots_allowed, robots_calls, robots_fetches>>
orch_vars == <<req_result, sel_result, result, req_calls, sel_calls, raised>>
task_vars == <<running, pc, input_vars, orch_vars, robots_vars, rl_vars, log>>
api_vars == <<api_pc, endpoint, profile_url, profile_urls, batch_i, results, response,
              pipeline_calls>>
\* the variables of the layers around the engine
ext_vars == <<scraped_data, extracted>>
ana_vars == <<profile, analyses>>
mw_vars == <<clients, dispatched>>
outer_vars == <<api_vars, ext_vars, ana_vars, mw_vars>>

Event(s, k) == [strategy |-> s, kind |-> k]

\* A completion of _respect_rate_limit, as observed: the n-th of the engine,
\* for which host, the stamp it read (seen), the sleep it made, the stamp it
\* wrote, and the completion before it (prev_*; prev_same_host is the time of
\* the last completion for the same host, 0 when there was none).
NoCompletion == [n |-> 0, host |-> "none", seen |-> 0, slept |-> 0, stamp |-> 0,
                 prev_stamp |-> 0, prev_host |-> "none", prev_same_host |-> 0]

\* ------------------------------------------------------- the API's inputs
\* A URL string is a sequence of pieces; no piece is a part of another one's
\* text, so two strings are equal exactly when their sequences are.  "a"
\* stands for a letter or digit, "_" for a character outside [A-Za-z0-9-].
UrlPieces == {"https://www.linkedin.com", "https://linkedin.com", "http://www.linkedin.com",
              "/in/", "/", "a", "-", "_"}
UrlStrings == UNION {[1..n -> UrlPieces] : n \in 0..MaxUrlLen}

\* A profile URL, and one on another host (test_basic.py lines 86 and 94)
GoodUrl == <<"https://www.linkedin.com", "/in/", "a">>
BadUrl == <<"https://linkedin.com", "/in/", "a">>

\* The batches a client sends: n urls, of which none, one, or all are not
\* profile URLs
BadPositions(n) == {{}, 1..n} \cup {{k} : k \in 1..n}
BatchOf(n, B) == [i \in 1..n |-> IF i \in B THEN BadUrl ELSE GoodUrl]
BatchInputs == UNION {{BatchOf(n, B) : B \in BadPositions(n)} : n \in 0..MaxBatchLen}

\* The handler has not answered
NoResponse == [code |-> 0, total_profiles |-> 0, successful |-> 0, failed |-> 0]
\* raise HTTPException(status_code=...)
HTTPException(c) == [code |-> c, total_profiles |-> 0, successful |-> 0, failed |-> 0]

\* No request is being handled
ApiIdle ==
    /\ api_pc = "idle"
    /\ endpoint = "none"
    /\ profile_url = <<>>
    /\ profile_urls = <<>>
    /\ batch_i = 0
    /\ results = <<>>
    /\ response = NoResponse
    /\ pipeline_calls = 0

\* ------------------------------------------------- the extractor's inputs
\* What soup.select_one(selector) gives: no element, or an element and its
\* get_text(strip=True)
NotFound == [found |-> FALSE, text |-> ""]
Element(txt) == [found |-> TRUE, text |-> txt]

\* The three selector rules of an identity field, in list order: each matches
\* nothing, an element with empty content, or an element whose content names
\* the rule
RuleTexts == <<"first", "second", "third">>
RuleMatches == {m \in [1..3 -> {NotFound, Element("")} \cup {Element(RuleTexts[k]) : k \in 1..3}] :
                   \A k \in 1..3 : m[k].text \in {"", RuleTexts[k]}}
NoMatches == [k \in 1..3 |-> NotFound]

\* The elements that match the experience selector: n of them, each with an
\* <h3> (pattern "all"), none with one ("none"), or all but the first
\* ("rest"); a company element goes with the <h3>
ListPatterns == {"all", "none", "rest"}
Has(pattern, i) == pattern = "all" \/ (pattern = "rest" /\ i > 1)
ExperienceSections(n, pattern) ==
    [i \in 1..n |-> [h3 |-> IF Has(pattern, i) THEN Element("title") ELSE NotFound,
                     company |-> IF Has(pattern, i) THEN Element("company") ELSE NotFound]]
\* The elements that match the skills selector, each with text or empty
SkillsElements(n, pattern) ==
    [i \in 1..n |-> IF Has(pattern, i) THEN Element("skill") ELSE Element("")]

\* scraped_data['html'], as BeautifulSoup sees it
Html(name, headline, location, experience, skills) ==
    [name |-> name, headline |-> headline, location |-> location,
     experience_sections |-> experience, skills_elements |-> skills]
EmptyHtml == [empty |-> TRUE]

\* Pages whose name and headline vary, pages whose location varies, pages
\* whose lists vary
Htmls ==
    {Html(n, h, NoMatches, ExperienceSections(k, "all"), SkillsElements(k, "all")) :
        n \in RuleMatches, h \in RuleMatches, k \in 0..1}
    \cup {Html(NoMatches, NoMatches, l, <<>>, <<>>) : l \in RuleMatches}
    \cup {Html(n, NoMatches, NoMatches, ExperienceSections(e[1], e[2]), SkillsElements(k[1], k[2])) :
            n \in {NoMatches, [NoMatches EXCEPT ![1] = Element("first")]},
            e \in (0..MaxExperienceElems) \X ListPatterns,
            k \in (0..MaxSkillElems) \X ListPatterns}

\* The fetch results given to the extractor: None, a dict with empty html, a
\* dict with a page
NoScrapedData == [none |-> TRUE]
ScrapedData(u, h) == [url |-> u, html |-> h]
ScrapedDatas == {NoScrapedData} \cup {ScrapedData(DefaultUrl, h) : h \in {EmptyHtml} \cup Htmls}

\* Python's None for an Optional[ProfileData]
NoProfileData == [none |-> TRUE]

\* The extractor has not been called
ExtractIdle ==
    /\ scraped_data = NoScrapedData
    /\ extracted = <<>>

\* The analyzer has not been called
AnalyzeIdle ==
    /\ profile = NoProfileData
    /\ analyses = <<>>

\* RateLimitMiddleware.__init__, middleware.py lines 48-52: self.clients = {}
MiddlewareIdle ==
    /\ clients = <<>>
    /\ dispatched = <<>>

\* ScrapingEngine.__init__, lines 31-43
EngineFresh ==
    /\ now = StartTime
    /\ selenium_driver = FALSE
    /\ request_count = 0
    /\ last_request_time = 0

\* The engine after it served one request: the driver exists, the stamp is
\* the time of that request, just made or REQUEST_DELAY_MAX ago
EngineUsed ==
    /\ now = StartTime
    /\ selenium_driver = TRUE
    /\ request_count = 1
    /\ last_request_time \in {StartTime - REQUEST_DELAY_MAX, StartTime}

\* No call of the engine is pending
TasksIdle ==
    /\ running = {}
    /\ pc = [t \in Tasks |-> "idle"]
    /\ entry = [t \in Tasks |-> "none"]
    /\ url = [t \in Tasks |-> DefaultUrl]
    /\ prefer_selenium = [t \in Tasks |-> FALSE]
    /\ req_result = [t \in Tasks |-> None]
    /\ sel_result = [t \in Tasks |-> None]
    /\ result = [t \in Tasks |-> None]
    /\ req_calls = [t \in Tasks |-> 0]
    /\ sel_calls = [t \in Tasks |-> 0]
    /\ raised = {}
    /\ robots_outcome = [t \in Tasks |-> "none"]
    /\ robots_allowed = [t \in Tasks |-> FALSE]
    /\ rl_seen = [t \in Tasks |-> 0]
    /\ rl_sleep = [t \in Tasks |-> 0]
    /\ log = [t \in Tasks |-> <<>>]
    /\ rl_last = NoCompletion
    /\ host_last = [h \in Hosts |-> 0]
    /\ robots_calls = [h \in Hosts |-> 0]
    /\ robots_fetches = [h \in Hosts |-> 0]

Init ==
    /\ EngineFresh
    /\ TasksIdle
    /\ ApiIdle
    /\ ExtractIdle
    /\ AnalyzeIdle
    /\ MiddlewareIdle


\* ------------------------------------------------- pure parts of the code

\* smart_scrape line 172: the richness predicate of the lightweight result
RichEnough_AtLeast(r) == Truthy(r) /\ r.len >= RICH_MIN_LENGTH
RichEnough(r) == Truthy(r) /\ r.len > RICH_MIN_LENGTH

\* smart_scrape lines 179-181: `if result:` the rendered result is returned
\* when it is a dict, whatever its content
RenderedAccepted_Rich(r) == RichEnough(r)
RenderedAccepted(r) == Truthy(r)

\* _respect_rate_limit lines 81-84: sleep_time, 0 when no sleep is made
SleepTime_Inverted(time_since_last, required_delay) ==
    IF time_since_last > required_delay THEN time_since_last - required_delay ELSE 0
SleepTime(time_since_last, required_delay) ==
    IF time_since_last < required_delay THEN required_delay - time_since_last ELSE 0

\* _respect_rate_limit line 86: self.last_request_time = time.time()
NewStamp_Stale(old, t_now) == old
NewStamp(old, t_now) == t_now

\* _respect_rate_limit line 84: time.sleep blocks the thread, the event loop
\* runs no other task meanwhile (it is not `await asyncio.sleep`)
SleepReleasesLoop_Async == TRUE
SleepReleasesLoop == FALSE

\* What the request for the host's robots.txt (rp.read(), line 97) can meet.
\*   url_error     urlopen raises URLError (no route, refused, timeout)
\*   decode_error  the body is not UTF-8: raw.decode raises UnicodeDecodeError
\*   http_401_403, http_4xx (other 4xx), http_5xx: urlopen raises HTTPError
\*   rules_allow, rules_deny: rules were read; they allow / disallow the path
RobotsOutcomes == {"url_error", "decode_error", "http_401_403", "http_4xx",
                   "http_5xx", "rules_allow", "rules_deny"}

\* The outcomes in which the rules could not be fetched or parsed
RulesUnavailable == {"url_error", "decode_error", "http_401_403", "http_4xx", "http_5xx"}

\* rp.read() raises to check_robots_txt: RobotFileParser.read catches HTTPError
\* itself (401/403: disallow_all; other 4xx: allow_all; 5xx: nothing is set)
\* and lets every other exception through
ReadRaises(o) == o \in {"url_error", "decode_error"}

\* rp.can_fetch(user_agent, url), line 99, after a read() that returned:
\* disallow_all -> False; allow_all -> True; no rules read (last_checked
\* still 0) -> False; else by the rules
can_fetch(o) == o \in {"http_4xx", "rules_allow"}

\* check_robots_txt, lines 89-102: the answer; an exception gives True
check_robots_txt(o) == IF ReadRaises(o) THEN TRUE ELSE can_fetch(o)

\* check_robots_txt lines 95-97: a new RobotFileParser is made and read on
\* every call; n is the number of requests made so far for the host's rules
RulesFetchesAfterCall_Cached(n) == IF n = 0 THEN 1 ELSE n
RulesFetchesAfterCall(n) == n + 1

\* scrape_with_selenium lines 134-135: _setup_selenium() is called inside the
\* try, its re-raised exception (line 69) is caught at line 161
SetupInsideTry_Outside == FALSE
SetupInsideTry == TRUE

\* scrape_with_requests lines 128-130: a failed get returns None to
\* smart_scrape; nothing loops back into the strategy
PcAfterRequestsFailure_Retry == "req_rate"
PcAfterRequestsFailure == "after_req"

\* scrape_with_selenium lines 135-138: after the driver is set up the rate
\* governor is applied, then driver.get
PcAfterSetup_NoGovernor == "sel_get"
PcAfterSetup == "sel_rate"

\* scrape_with_requests lines 108-112: `if not self.check_robots_txt(url):
\* return None`; an allowed url goes on to the rate governor
PcAfterGate_Proceed(allowed) == "req_rate"
PcAfterGate(allowed) == IF allowed THEN "req_rate" ELSE "after_req"

RatePcs == {"req_rate", "sel_rate"}
SleepPcs == {"req_sleep", "sel_sleep"}
StrategyOf(p) == IF p \in {"req_robots", "req_gate", "req_rate", "req_sleep", "req_get"}
                 THEN "requests" ELSE "selenium"

\* ---------------------------------------------------------------- actions

\* Time passes (network latency, scheduling, idle time between requests).
Tick ==
    /\ now < MaxTime
    /\ now' = now + 1
    /\ UNCHANGED <<running, engine_vars, pc, input_vars, orch_vars, robots_vars, rl_vars, log>>
    /\ UNCHANGED outer_vars

\* A request arrives: a call of smart_scrape(url, prefer) or of
\* scrape_linkedin_profile(url) is made on the event loop.  Tasks are numbered
\* in the order of their arrival.
Arrive(t) ==
    /\ pc[t] = "idle"
    /\ \A u \in Tasks : u < t => pc[u] # "idle"
    /\ \E e \in {"smart_scrape", "scrape_linkedin_profile"}, u \in Urls, p \in BOOLEAN :
          /\ e = "scrape_linkedin_profile" => p = FALSE
          /\ entry' = [entry EXCEPT ![t] = e]
          /\ url' = [url EXCEPT ![t] = u]
          /\ prefer_selenium' = [prefer_selenium EXCEPT ![t] = p]
    /\ pc' = [pc EXCEPT ![t] = "ready"]
    /\ UNCHANGED <<now, running, engine_vars, orch_vars, robots_vars, rl_vars, log>>
    /\ UNCHANGED outer_vars

\* The event loop gives its thread to a task that can run: a new one, or one
\* suspended at an await (the engine has none).
Schedule(t) ==
    /\ running = {}
    /\ pc[t] \in {"ready"} \cup SleepPcs
    /\ running' = {t}
    /\ UNCHANGED <<now, engine_vars, pc, input_vars, orch_vars, robots_vars, rl_vars, log>>
    /\ UNCHANGED outer_vars

\* scrape_linkedin_profile, lines 267-272: calls smart_scrape(profile_url,
\* prefer_selenium=True)
scrape_linkedin_profile(t) ==
    /\ running = {t}
    /\ pc[t] = "ready"
    /\ entry[t] = "scrape_linkedin_profile"
    /\ prefer_selenium' = [prefer_selenium EXCEPT ![t] = TRUE]
    /\ pc' = [pc EXCEPT ![t] = "smart_scrape"]
    /\ UNCHANGED <<now, running, engine_vars, entry, url, orch_vars, robots_vars, rl_vars, log>>
    /\ UNCHANGED outer_vars

\* smart_scrape, lines 165-171 and 177-178: the first strategy is chosen
smart_scrape(t) ==
    /\ running = {t}
    /\ \/ pc[t] = "smart_scrape"
       \/ pc[t] = "ready" /\ entry[t] = "smart_scrape"
    /\ IF ~prefer_selenium[t]
       THEN /\ pc' = [pc EXCEPT ![t] = "req_robots"]
            /\ req_calls' = [req_calls EXCEPT ![t] = @ + 1]
            /\ UNCHANGED sel_calls
       ELSE /\ pc' = [pc EXCEPT ![t] = "sel_setup"]
            /\ sel_calls' = [sel_calls EXCEPT ![t] = @ + 1]
            /\ UNCHANGED req_calls
    /\ UNCHANGED <<now, running, engine_vars, input_vars, req_result, sel_result,
                   result, raised, robots_vars, rl_vars, log>>
    /\ UNCHANGED outer_vars

\* check_robots_txt, lines 89-102, as called at line 108: the rules of the
\* url's host are requested and the url is evaluated against them
scrape_with_requests_robots(t) ==
    /\ running = {t}
    /\ pc[t] = "req_robots"
    /\ \E o \in RobotsOutcomes :
          /\ robots_outcome' = [robots_outcome EXCEPT ![t] = o]
          /\ robots_allowed' = [robots_allowed EXCEPT ![t] = check_robots_txt(o)]
    /\ robots_calls' = [robots_calls EXCEPT ![netloc(url[t])] = @ + 1]
    /\ robots_fetches' = [robots_fetches EXCEPT ![netloc(url[t])] = RulesFetchesAfterCall(@)]
    /\ log' = [log EXCEPT ![t] = Append(@, Event("requests", "robots_fetch"))]
    /\ pc' = [pc EXCEPT ![t] = "req_gate"]
    /\ UNCHANGED <<now, running, engine_vars, input_vars, orch_vars, rl_vars>>
    /\ UNCHANGED outer_vars

\* scrape_with_requests, lines 108-112: a url the rules disallow is not
\* fetched, the strategy returns None
scrape_with_requests_gate(t) ==
    /\ running = {t}
    /\ pc[t] = "req_gate"
    /\ pc' = [pc EXCEPT ![t] = PcAfterGate(robots_allowed[t])]
    /\ req_result' = [req_result EXCEPT
                         ![t] = IF PcAfterGate(robots_allowed[t]) = "after_req" THEN None ELSE @]
    /\ robots_outcome' = [robots_outcome EXCEPT ![t] = "none"]
    /\ robots_allowed' = [robots_allowed EXCEPT ![t] = FALSE]
    /\ UNCHANGED <<now, running, engine_vars, input_vars, sel_result, result, req_calls,
                   sel_calls, raised, robots_calls, robots_fetches, rl_vars, log>>
    /\ UNCHANGED outer_vars

\* _respect_rate_limit, lines 73-83: the stamp is read, the delay drawn, the
\* sleep decided
respect_rate_limit_begin(t) ==
    /\ running = {t}
    /\ pc[t] \in RatePcs
    /\ \E required_delay \in REQUEST_DELAY_MIN..REQUEST_DELAY_MAX :
          LET sleep_time == SleepTime(now - last_request_time, required_delay)
          IN  /\ rl_sleep' = [rl_sleep EXCEPT ![t] = sleep_time]
              /\ running' = IF SleepReleasesLoop /\ sleep_time > 0 THEN {} ELSE {t}
    /\ rl_seen' = [rl_seen EXCEPT ![t] = last_request_time]
    /\ pc' = [pc EXCEPT ![t] = IF pc[t] = "req_rate" THEN "req_sleep" ELSE "sel_sleep"]
    /\ UNCHANGED <<now, engine_vars, input_vars, orch_vars, robots_vars, rl_last, host_last, log>>
    /\ UNCHANGED outer_vars

\* _respect_rate_limit, lines 84-87: the sleep ends, the stamp and the counter
\* are written
respect_rate_limit_end(t) ==
    /\ running = {t}
    /\ pc[t] \in SleepPcs
    /\ now' = now + rl_sleep[t]
    /\ last_request_time' = NewStamp(last_request_time, now')
    /\ request_count' = request_count + 1
    /\ rl_last' = [n |-> rl_last.n + 1, host |-> netloc(url[t]),
                    seen |-> rl_seen[t], slept |-> rl_sleep[t], stamp |-> now',
                    prev_stamp |-> rl_last.stamp, prev_host |-> rl_last.host,
                    prev_same_host |-> host_last[netloc(url[t])]]
    /\ host_last' = [host_last EXCEPT ![netloc(url[t])] = now']
    /\ rl_seen' = [rl_seen EXCEPT ![t] = 0]
    /\ rl_sleep' = [rl_sleep EXCEPT ![t] = 0]
    /\ log' = [log EXCEPT ![t] = Append(@, Event(StrategyOf(pc[t]), "rate_turn"))]
    /\ pc' = [pc EXCEPT ![t] = IF pc[t] = "req_sleep" THEN "req_get" ELSE "sel_get"]
    /\ UNCHANGED <<running, selenium_driver, input_vars, orch_vars, robots_vars>>
    /\ UNCHANGED outer_vars

\* scrape_with_requests, lines 114-130: session.get, raise_for_status, parse
scrape_with_requests_get(t) ==
    /\ running = {t}
    /\ pc[t] = "req_get"
    /\ log' = [log EXCEPT ![t] = Append(@, Event("requests", "session_get"))]
    /\ \/ \* transport error, timeout, HTTP error status: caught at line 128
          /\ req_result' = [req_result EXCEPT ![t] = None]
          /\ pc' = [pc EXCEPT ![t] = PcAfterRequestsFailure]
       \/ \E n \in ContentLengths :
             /\ req_result' = [req_result EXCEPT ![t] = FetchResult("requests", n)]
             /\ pc' = [pc EXCEPT ![t] = "after_req"]
    /\ UNCHANGED <<now, running, engine_vars, input_vars, sel_result, result,
                   req_calls, sel_calls, raised, robots_vars, rl_vars>>
    /\ UNCHANGED outer_vars

\* smart_scrape, lines 172-178: the lightweight result is returned when it is
\* rich enough, else the rendered strategy is called
smart_scrape_after_requests(t) ==
    /\ running = {t}
    /\ pc[t] = "after_req"
    /\ IF RichEnough(req_result[t])
       THEN /\ result' = [result EXCEPT ![t] = req_result[t]]
            /\ pc' = [pc EXCEPT ![t] = "done"]
            /\ UNCHANGED sel_calls
       ELSE /\ pc' = [pc EXCEPT ![t] = "sel_setup"]
            /\ sel_calls' = [sel_calls EXCEPT ![t] = @ + 1]
            /\ UNCHANGED result
    /\ UNCHANGED <<now, running, engine_vars, input_vars, req_result, sel_result, req_calls,
                   raised, robots_vars, rl_vars, log>>
    /\ UNCHANGED outer_vars

\* scrape_with_selenium, lines 134-135, with _setup_selenium, lines 45-69
scrape_with_selenium_setup(t) ==
    /\ running = {t}
    /\ pc[t] = "sel_setup"
    /\ \/ \* the driver exists (line 47) or is created
          /\ selenium_driver' = TRUE
          /\ pc' = [pc EXCEPT ![t] = PcAfterSetup]
          /\ UNCHANGED <<sel_result, raised>>
       \/ \* webdriver.Chrome raises (line 64), or execute_script raises after
          \* the driver was stored (line 65); re-raised at line 69
          /\ ~selenium_driver
          /\ selenium_driver' \in BOOLEAN
          /\ IF SetupInsideTry
             THEN /\ sel_result' = [sel_result EXCEPT ![t] = None]
                  /\ pc' = [pc EXCEPT ![t] = "after_sel"]
                  /\ UNCHANGED raised
             ELSE /\ raised' = raised \cup {t}
                  /\ pc' = [pc EXCEPT ![t] = "done"]
                  /\ UNCHANGED sel_result
    /\ UNCHANGED <<now, running, result, request_count, last_request_time, input_vars, req_result,
                   req_calls, sel_calls, robots_vars, rl_vars, log>>
    /\ UNCHANGED outer_vars

\* scrape_with_selenium, lines 138-163: driver.get, the wait for <body>, the
\* read of title, text and page source
scrape_with_selenium_get(t) ==
    /\ running = {t}
    /\ pc[t] = "sel_get"
    /\ log' = [log EXCEPT ![t] = Append(@, Event("selenium", "driver_get"))]
    /\ \/ \* WebDriverException, TimeoutException: caught at line 161
          sel_result' = [sel_result EXCEPT ![t] = None]
       \/ \E n \in ContentLengths :
             sel_result' = [sel_result EXCEPT ![t] = FetchResult("selenium", n)]
    /\ pc' = [pc EXCEPT ![t] = "after_sel"]
    /\ UNCHANGED <<now, running, engine_vars, input_vars, req_result, result,
                   req_calls, sel_calls, raised, robots_vars, rl_vars>>
    /\ UNCHANGED outer_vars

\* smart_scrape, lines 179-184: the rendered result, or None
smart_scrape_after_selenium(t) ==
    /\ running = {t}
    /\ pc[t] = "after_sel"
    /\ result' = [result EXCEPT ![t] = IF RenderedAccepted(sel_result[t])
                                       THEN sel_result[t] ELSE None]
    /\ pc' = [pc EXCEPT ![t] = "done"]
    /\ UNCHANGED <<now, running, engine_vars, input_vars, req_result, sel_result,
                   req_calls, sel_calls, raised, robots_vars, rl_vars, log>>
    /\ UNCHANGED outer_vars

\* The call has returned (or raised) to its caller: its frame is gone and the
\* event loop has its thread back.
Return(t) ==
    /\ running = {t}
    /\ pc[t] = "done"
    /\ running' = {}
    /\ pc' = [pc EXCEPT ![t] = "finished"]
    /\ entry' = [entry EXCEPT ![t] = "none"]
    /\ url' = [url EXCEPT ![t] = DefaultUrl]
    /\ prefer_selenium' = [prefer_selenium EXCEPT ![t] = FALSE]
    /\ req_result' = [req_result EXCEPT ![t] = None]
    /\ sel_result' = [sel_result EXCEPT ![t] = None]
    /\ result' = [result EXCEPT ![t] = None]
    /\ req_calls' = [req_calls EXCEPT ![t] = 0]
    /\ sel_calls' = [sel_calls EXCEPT ![t] = 0]
    /\ raised' = raised \ {t}
    /\ log' = [log EXCEPT ![t] = <<>>]
    /\ UNCHANGED <<now, engine_vars, robots_vars, rl_vars>>
    /\ UNCHANGED outer_vars

\* cleanup, lines 280-290: the driver is quit and dropped.  The call is made
\* by __del__ (line 294) or by a caller of the engine, from the loop's thread
\* when no call of the engine holds it; a request that has arrived and not
\* started has not touched the engine, so cleanup is taken before it arrives.
cleanup ==
    /\ running = {}
    /\ \A t \in Tasks : pc[t] \in {"idle", "finished"}
    /\ selenium_driver
    /\ selenium_driver' = FALSE
    /\ UNCHANGED <<now, running, request_count, last_request_time, pc, input_vars, orch_vars,
                   robots_vars, rl_vars, log>>
    /\ UNCHANGED outer_vars

Next ==
    \/ Tick
    \/ cleanup
    \/ \E t \in Tasks :
          \/ Arrive(t)
          \/ Schedule(t)
          \/ scrape_linkedin_profile(t)
          \/ smart_scrape(t)
          \/ scrape_with_requests_robots(t)
          \/ scrape_with_requests_gate(t)
          \/ respect_rate_limit_begin(t)
          \/ respect_rate_limit_end(t)
          \/ scrape_with_requests_get(t)
          \/ smart_scrape_after_requests(t)
          \/ scrape_with_selenium_setup(t)
          \/ scrape_with_selenium_get(t)
          \/ smart_scrape_after_selenium(t)
          \/ Return(t)

Spec == Init /\ [][Next]_vars

\* One step of task t's call, whatever its position
TaskNext(t) ==
    \/ scrape_linkedin_profile(t)
    \/ smart_scrape(t)
    \/ scrape_with_requests_robots(t)
    \/ scrape_with_requests_gate(t)
    \/ respect_rate_limit_begin(t)
    \/ respect_rate_limit_end(t)
    \/ scrape_with_requests_get(t)
    \/ smart_scrape_after_requests(t)
    \/ scrape_with_selenium_setup(t)
    \/ scrape_with_selenium_get(t)
    \/ smart_scrape_after_selenium(t)
    \/ Return(t)

\* ------------------------------------------------------------ the API
\* src/src/api/__init__.py.  A handler is a coroutine on the same event loop;
\* its only await is the engine's scrape_linkedin_profile, which does not
\* suspend, so a handler runs from its first line to its answer with no other
\* handler in between: one request is followed from arrival to answer.

\* profile_url.startswith("https://www.linkedin.com/in/"), lines 45 and 121
startswith_profile_prefix(u) ==
    Len(u) >= 2 /\ u[1] = "https://www.linkedin.com" /\ u[2] = "/in/"

\* utils.validate_linkedin_url, utils.py lines 12-15: re.match of
\* ^https://www\.linkedin\.com/in/[a-zA-Z0-9\-]+/?$
validate_linkedin_url(u) ==
    /\ startswith_profile_prefix(u)
    /\ LET rest == SubSeq(u, 3, Len(u))
           id == IF rest # <<>> /\ rest[Len(rest)] = "/"
                 THEN SubSeq(rest, 1, Len(rest) - 1) ELSE rest
       IN  id # <<>> /\ \A i \in 1..Len(id) : id[i] \in {"a", "-"}

\* len(profile_urls) > 10, line 111
BatchTooLarge_Never(n) == FALSE
BatchTooLarge(n) == n > MAX_BATCH_SIZE

\* batch_scrape_profiles lines 120 and 147-152: each url is handled inside its
\* own try, whose except appends an error entry
PerItemTry_Absent == FALSE
PerItemTry == TRUE

\* What scrape_linkedin_profile returns to a handler: None, a ProfileData
\* with no experience entry, a ProfileData with experience entries
ProfileDatas == {"None", "plain", "with_experience"}

\* profile_data.to_dict(), profile.py line 147: `exp.__dict__` for every
\* experience entry; the extractor's entries are dicts (scraping.py lines
\* 240-245), which have no __dict__: AttributeError
ToDictRaises(pd) == pd = "with_experience"

\* An entry of the batch's results list
ResultEntry(u, st) == [url |-> u, status |-> st]

\* len([r for r in results if r["status"] == st]), lines 157-158
CountStatus(rs, st) == Cardinality({i \in 1..Len(rs) : rs[i].status = st})

\* await scraping_engine.scrape_linkedin_profile(url), scraping.py lines
\* 267-278, as one step of the handler: the rendered strategy is invoked; its
\* driver set-up may fail (no turn at the governor then); otherwise the
\* governor is passed, the page requested and, if it came, extracted.  pd is
\* what the call returns.
await_scrape_linkedin_profile(pd) ==
    /\ pipeline_calls' = pipeline_calls + 1
    /\ \/ /\ ~selenium_driver
          /\ selenium_driver' \in BOOLEAN
          /\ pd = "None"
          /\ UNCHANGED <<now, request_count, last_request_time>>
       \/ /\ selenium_driver' = TRUE
          /\ \E required_delay \in REQUEST_DELAY_MIN..REQUEST_DELAY_MAX :
                now' = now + SleepTime(now - last_request_time, required_delay)
          /\ last_request_time' = NewStamp(last_request_time, now')
          /\ request_count' = request_count + 1

\* A client posts to /profiles/scrape
ScrapeRequest ==
    /\ api_pc = "idle"
    /\ \E u \in UrlStrings : profile_url' = u
    /\ endpoint' = "scrape"
    /\ api_pc' = "scrape_validate"
    /\ UNCHANGED <<now, engine_vars, task_vars, profile_urls, batch_i, results, response,
                   pipeline_calls>>
    /\ UNCHANGED <<ext_vars, ana_vars, mw_vars>>

\* scrape_profile, lines 44-49
scrape_profile_validate ==
    /\ api_pc = "scrape_validate"
    /\ IF startswith_profile_prefix(profile_url)
       THEN /\ api_pc' = "scrape_fetch"
            /\ UNCHANGED response
       ELSE /\ api_pc' = "responded"
            /\ response' = HTTPException(400)
    /\ UNCHANGED <<now, engine_vars, task_vars, endpoint, profile_url, profile_urls, batch_i,
                   results, pipeline_calls>>
    /\ UNCHANGED <<ext_vars, ana_vars, mw_vars>>

\* scrape_profile, lines 51-74
scrape_profile_fetch ==
    /\ api_pc = "scrape_fetch"
    /\ \E pd \in ProfileDatas :
          /\ await_scrape_linkedin_profile(pd)
          /\ response' = IF pd = "None" THEN HTTPException(404)
                         ELSE IF ToDictRaises(pd) THEN HTTPException(500)
                         ELSE [NoResponse EXCEPT !.code = 200]
    /\ api_pc' = "responded"
    /\ UNCHANGED <<task_vars, endpoint, profile_url, profile_urls, batch_i, results>>
    /\ UNCHANGED <<ext_vars, ana_vars, mw_vars>>

\* A client posts to /profiles/batch-scrape
BatchRequest ==
    /\ api_pc = "idle"
    /\ \E us \in BatchInputs : profile_urls' = us
    /\ endpoint' = "batch"
    /\ api_pc' = "batch_check"
    /\ UNCHANGED <<now, engine_vars, task_vars, profile_url, batch_i, results, response,
                   pipeline_calls>>
    /\ UNCHANGED <<ext_vars, ana_vars, mw_vars>>

\* batch_scrape_profiles, lines 111-117
batch_check ==
    /\ api_pc = "batch_check"
    /\ IF BatchTooLarge(Len(profile_urls))
       THEN /\ api_pc' = "responded"
            /\ response' = HTTPException(400)
            /\ UNCHANGED <<batch_i, results>>
       ELSE /\ api_pc' = "batch_loop"
            /\ results' = <<>>
            /\ batch_i' = 1
            /\ UNCHANGED response
    /\ UNCHANGED <<now, engine_vars, task_vars, endpoint, profile_url, profile_urls,
                   pipeline_calls>>
    /\ UNCHANGED <<ext_vars, ana_vars, mw_vars>>

\* batch_scrape_profiles, lines 119-152: one turn of the loop
batch_item ==
    /\ api_pc = "batch_loop"
    /\ batch_i <= Len(profile_urls)
    /\ LET u == profile_urls[batch_i]
           entry_error == Append(results, ResultEntry(u, "error"))
           entry_success == Append(results, ResultEntry(u, "success"))
       IN  IF ~startswith_profile_prefix(u)
           THEN /\ results' = entry_error
                /\ batch_i' = batch_i + 1
                /\ UNCHANGED <<now, engine_vars, api_pc, response, pipeline_calls>>
           ELSE \E pd \in ProfileDatas :
                   /\ await_scrape_linkedin_profile(pd)
                   /\ IF pd # "None" /\ ToDictRaises(pd) /\ ~PerItemTry
                      THEN \* the exception reaches the handler's except, line 164
                           /\ api_pc' = "responded"
                           /\ response' = HTTPException(500)
                           /\ UNCHANGED <<results, batch_i>>
                      ELSE /\ results' = IF pd = "None" \/ ToDictRaises(pd)
                                         THEN entry_error ELSE entry_success
                           /\ batch_i' = batch_i + 1
                           /\ UNCHANGED <<api_pc, response>>
    /\ UNCHANGED <<task_vars, endpoint, profile_url, profile_urls>>
    /\ UNCHANGED <<ext_vars, ana_vars, mw_vars>>

\* batch_scrape_profiles, lines 154-160
batch_return ==
    /\ api_pc = "batch_loop"
    /\ batch_i > Len(profile_urls)
    /\ response' = [code |-> 200,
                    total_profiles |-> Len(profile_urls),
                    successful |-> CountStatus(results, "success"),
                    failed |-> CountStatus(results, "error")]
    /\ api_pc' = "responded"
    /\ UNCHANGED <<now, engine_vars, task_vars, endpoint, profile_url, profile_urls,
                   batch_i, results, pipeline_calls>>
    /\ UNCHANGED <<ext_vars, ana_vars, mw_vars>>

InitApi ==
    /\ EngineFresh \/ EngineUsed
    /\ TasksIdle
    /\ ApiIdle
    /\ ExtractIdle
    /\ AnalyzeIdle
    /\ MiddlewareIdle

NextApi ==
    \/ ScrapeRequest
    \/ scrape_profile_validate
    \/ scrape_profile_fetch
    \/ BatchRequest
    \/ batch_check
    \/ batch_item
    \/ batch_return

SpecApi == InitApi /\ [][NextApi]_vars

\* ------------------------------------------------------ the extractor
\* ScrapingEngine.extract_linkedin_profile_data, scraping.py lines 186-265,
\* and ProfileData, models/profile.py lines 81-240.

\* Lines 204-208 (name), 217-221 (headline), 230-234 (location): the rules
\* are tried in list order; `if name_element:` holds for any element that was
\* found (a bs4 Tag is truthy whatever its content), its text is taken and
\* the loop is left
first_match_NonEmpty(matches) ==
    LET hits == {k \in 1..3 : matches[k].found /\ matches[k].text # ""}
    IN  IF hits = {} THEN ""
        ELSE matches[CHOOSE k \in hits : \A j \in hits : k <= j].text
first_match(matches) ==
    LET hits == {k \in 1..3 : matches[k].found}
    IN  IF hits = {} THEN ""
        ELSE matches[CHOOSE k \in hits : \A j \in hits : k <= j].text

\* seq[:n]
FirstN_All(seq, n) == seq
FirstN(seq, n) == SubSeq(seq, 1, IF Len(seq) < n THEN Len(seq) ELSE n)

\* ProfileData.scraped_at, profile.py line 124: field(default_factory=
\* datetime.now), read when the record is made
scraped_at_default_AtImport(t_now) == StartTime
scraped_at_default(t_now) == t_now

\* ProfileData(), line 195: every field at its default (profile.py lines
\* 86-127); url is the attribute line 258 adds
ProfileData(t_now) ==
    [name |-> "", headline |-> "", location |-> "", summary |-> "", profile_url |-> "",
     profile_image_url |-> "",
     experience |-> <<>>, education |-> <<>>, skills |-> <<>>, certifications |-> <<>>,
     projects |-> <<>>, languages |-> <<>>, volunteer_experience |-> <<>>,
     url |-> "", raw_html |-> EmptyHtml, scraped_at |-> scraped_at_default(t_now)]

\* Lines 238-248: an entry for each of the first 5 sections that has an <h3>
experience_items(sections) ==
    LET HasTitle(sec) == sec.h3.found
        kept == SelectSeq(FirstN(sections, MAX_EXPERIENCES), HasTitle)
    IN  [i \in 1..Len(kept) |->
            [title |-> kept[i].h3.text,
             company |-> IF kept[i].company.found THEN kept[i].company.text ELSE "",
             duration |-> "", description |-> ""]]

\* Lines 252-256: the text of each of the first 20 elements that has text
skill_texts(elements) ==
    LET HasText(el) == el.text # ""
        kept == SelectSeq(FirstN(elements, MAX_SKILLS), HasText)
    IN  [i \in 1..Len(kept) |-> kept[i].text]

\* Lines 188-265: what the call returns for the fetch result sd at time t_now
extract_profile_data(sd, t_now) ==
    IF sd = NoScrapedData \/ sd.html = EmptyHtml
    THEN NoProfileData
    ELSE [ProfileData(t_now) EXCEPT
            !.name = first_match(sd.html.name),
            !.headline = first_match(sd.html.headline),
            !.location = first_match(sd.html.location),
            !.experience = experience_items(sd.html.experience_sections),
            !.skills = skill_texts(sd.html.skills_elements),
            !.url = sd.url,
            !.raw_html = sd.html]

\* ProfileData.has_minimum_data, profile.py lines 238-240
has_minimum_data(p) ==
    p.name # "" /\ (p.headline # "" \/ p.experience # <<>> \/ p.skills # <<>>)

\* A call of extract_linkedin_profile_data on the fetch result
extract_linkedin_profile_data ==
    /\ Len(extracted) < MaxExtractCalls
    /\ extracted' = Append(extracted, [at |-> now,
                                       profile_data |-> extract_profile_data(scraped_data, now)])
    /\ UNCHANGED <<now, engine_vars, task_vars, api_vars, scraped_data, ana_vars, mw_vars>>

InitExtract ==
    /\ EngineFresh
    /\ TasksIdle
    /\ ApiIdle
    /\ scraped_data \in ScrapedDatas
    /\ extracted = <<>>
    /\ AnalyzeIdle
    /\ MiddlewareIdle

NextExtract ==
    \/ Tick
    \/ extract_linkedin_profile_data

SpecExtract == InitExtract /\ [][NextExtract]_vars

\* ------------------------------------------------------- the analyzer
\* ProfileAnalyzer, services/analyzer.py, and the ProfileData methods it
\* calls, models/profile.py.  A datetime is its number of seconds since the
\* epoch.

\* Optional[datetime]: None, or a datetime
NoDate == [given |-> FALSE, at |-> 0]
Date(secs) == [given |-> TRUE, at |-> secs]
Days(n) == n * SECONDS_PER_DAY

\* ExperienceItem, profile.py lines 20-29
ExperienceItem(title, company, dates) ==
    [title |-> title, company |-> company,
     start_date |-> dates[1], end_date |-> dates[2], is_current |-> dates[3]]

\* The titles of the records analysed, and the keyword tests the analyzer
\* makes on them: `keyword in exp.title.lower()` for the leadership keywords
\* (line 79) and the progression keywords (line 245)
Titles == {"Engineer", "Senior Engineer", "Engineering Manager", "CTO"}
has_leadership_keyword(title) == title \in {"Engineering Manager", "CTO"}
has_progression_keyword(title) == title \in {"Senior Engineer", "Engineering Manager"}

\* The companies, and `any(known in company.lower() ...)`, lines 232-239
Companies == {"", "Acme", "Google", "Fintech Labs"}
is_well_known(company) == company = "Google"

\* The headlines
Headlines == {"", "Engineer", "Software Engineer", "Investment Banking", "School Teacher",
              "Medical School Marketing Consulting"}

\* _analyze_industry_focus, lines 100-109 and 124: the industries one of whose
\* keywords is contained in the lower-cased text (the keywords 'IT' and 'SEO'
\* have capitals and are contained in no lower-cased text).  No title,
\* company or skill name of the records analysed but "Fintech Labs" contains
\* a keyword, and no keyword lies across two of the joined texts.
industries_in(text) ==
    CASE text = "Fintech Labs" -> {"Technology", "Finance"}
      [] text = "Software Engineer" -> {"Technology"}
      [] text = "Investment Banking" -> {"Finance"}
      [] text = "School Teacher" -> {"Education"}
      [] text = "Medical School Marketing Consulting" ->
             {"Healthcare", "Education", "Marketing", "Consulting"}
      [] OTHER -> {}

\* The keys of industry_keywords, in the order of the dict, lines 100-109
industry_order ==
    <<"Technology", "Finance", "Healthcare", "Education", "Marketing", "Consulting",
      "Retail", "Manufacturing">>

\* The start date, end date and is_current of an entry: no dates; one year,
\* three years, fifteen years ended at the epoch; an end five years before
\* the start; a current position that completes its third year one second
\* after StartTime; a current position that starts two years from now; a
\* start date alone
DateTriples ==
    {<<NoDate, NoDate, FALSE>>,
     <<Date(-Days(366)), Date(0), FALSE>>,
     <<Date(-Days(1096)), Date(0), FALSE>>,
     <<Date(-Days(5479)), Date(0), FALSE>>,
     <<Date(0), Date(-Days(1827)), FALSE>>,
     <<Date((StartTime + 1) - Days(1096)), NoDate, TRUE>>,
     <<Date(StartTime + Days(731)), NoDate, TRUE>>,
     <<Date(-Days(366)), NoDate, FALSE>>}

ExperienceItems == {ExperienceItem(t, c, d) : t \in Titles, c \in Companies, d \in DateTriples}

\* The skill names, and how many entries of trending_skills_2025 (lines
\* 37-41) and of skill_categories['technical'] (lines 20-24) each contains,
\* case-insensitively: "JavaScript" contains both 'JavaScript' and 'Java'
SkillNames == {"Excel", "Python", "Machine Learning", "Cloud Computing", "JavaScript", "DevOps"}
trending_matches(skill) ==
    IF skill \in {"Machine Learning", "Cloud Computing", "DevOps"} THEN 1 ELSE 0
technical_matches(skill) ==
    IF skill = "JavaScript" THEN 2
    ELSE IF skill \in {"Python", "Machine Learning", "DevOps"} THEN 1 ELSE 0

\* n times x
Repeat(x, n) == [i \in 1..n |-> x]

\* The basic information of a record: none of it, the name alone, all of it
Basics == {"none", "name", "all"}
WithBasics(p, b) ==
    [p EXCEPT !.name = IF b = "none" THEN "" ELSE "Ada",
              !.headline = IF b = "all" THEN "Engineer" ELSE "",
              !.summary = IF b = "all" THEN "summary" ELSE "",
              !.location = IF b = "all" THEN "London" ELSE "",
              !.profile_image_url = IF b = "all" THEN "https://img" ELSE "",
              !.profile_url = IF b = "none" THEN "" ELSE "https://www.linkedin.com/in/ada"]

\* The records analysed: records whose experience varies, records whose
\* skills vary, records with every section filled, records whose headline
\* and experience vary
Profiles ==
    {[WithBasics(ProfileData(StartTime), b) EXCEPT !.experience = Repeat(e, n)] :
        b \in Basics, e \in ExperienceItems, n \in 0..MaxExperience}
    \cup {[WithBasics(ProfileData(StartTime), b) EXCEPT !.skills = Repeat(k, n)] :
            b \in Basics, k \in SkillNames, n \in 0..MaxSkills}
    \cup {[WithBasics(ProfileData(StartTime), "all") EXCEPT
              !.headline = h,
              !.experience = Repeat(ExperienceItem("Engineering Manager", "Google",
                                                   <<Date(-Days(5479)), Date(0), FALSE>>), 6),
              !.skills = Repeat("Machine Learning", 10),
              !.education = Repeat("degree", n),
              !.certifications = Repeat("certificate", x),
              !.projects = Repeat("project", x),
              !.languages = Repeat("language", x),
              !.volunteer_experience = Repeat("volunteering", x)] :
            h \in {"Engineer", "Software Engineer"}, n \in 0..MaxEducation, x \in 0..1}
    \cup {[WithBasics(ProfileData(StartTime), "all") EXCEPT
              !.headline = h,
              !.experience = Repeat(e, n)] :
            h \in Headlines, e \in ExperienceItems, n \in 0..3}

\* min(a, b)
Min(a, b) == IF a <= b THEN a ELSE b

\* int(a / b) for b > 0: Python's int() drops the fraction, towards zero
TruncDiv(a, b) == IF a >= 0 THEN a \div b ELSE -((-a) \div b)

\* sum(f) over a list of integers
RECURSIVE Sum(_)
Sum(ns) == IF ns = <<>> THEN 0 ELSE ns[1] + Sum(Tail(ns))

\* ProfileData.get_years_of_experience, profile.py lines 213-219: the
\* timedelta.days an entry adds (days are whole, rounded down); a current
\* position is measured up to datetime.now()
experience_days(exp, t_now) ==
    IF exp.start_date.given /\ exp.end_date.given
    THEN (exp.end_date.at - exp.start_date.at) \div SECONDS_PER_DAY
    ELSE IF exp.start_date.given /\ exp.is_current
    THEN (t_now - exp.start_date.at) \div SECONDS_PER_DAY
    ELSE 0

\* ProfileData.get_years_of_experience, profile.py lines 209-221:
\* int(sum(days / 365.25)); 365.25 is 1461/4
get_years_of_experience(p, t_now) ==
    TruncDiv(4 * Sum([i \in 1..Len(p.experience) |-> experience_days(p.experience[i], t_now)]),
             1461)

\* ProfileAnalyzer._determine_career_level, analyzer.py lines 74-93
determine_career_level_TenureOnly(p, t_now) ==
    LET years_experience == get_years_of_experience(p, t_now)
    IN  IF years_experience >= 15 THEN "Executive"
        ELSE IF years_experience >= 8 THEN "Senior"
        ELSE IF years_experience >= 3 THEN "Mid-Level"
        ELSE "Entry-Level"
determine_career_level_MidDefault(p, t_now) ==
    LET years_experience == get_years_of_experience(p, t_now)
        has_leadership == \E i \in 1..Len(p.experience) :
                              has_leadership_keyword(p.experience[i].title)
    IN  IF years_experience >= 15 \/ has_leadership THEN "Executive"
        ELSE IF years_experience >= 8 THEN "Senior"
        ELSE IF years_experience < 3 /\ p.experience # <<>> THEN "Entry-Level"
        ELSE "Mid-Level"
determine_career_level(p, t_now) ==
    LET years_experience == get_years_of_experience(p, t_now)
        has_leadership == \E i \in 1..Len(p.experience) :
                              has_leadership_keyword(p.experience[i].title)
    IN  IF years_experience >= 15 \/ has_leadership THEN "Executive"
        ELSE IF years_experience >= 8 THEN "Senior"
        ELSE IF years_experience >= 3 THEN "Mid-Level"
        ELSE "Entry-Level"

\* ProfileAnalyzer._calculate_completeness_score, lines 165-194
calculate_completeness_score(p) ==
    LET score ==
          (IF p.name # "" THEN 5 ELSE 0)
        + (IF p.headline # "" THEN 5 ELSE 0)
        + (IF p.summary # "" THEN 10 ELSE 0)
        + (IF p.location # "" THEN 5 ELSE 0)
        + (IF p.profile_image_url # "" THEN 5 ELSE 0)
        + (IF p.experience # <<>> THEN Min(25, Len(p.experience) * 5) ELSE 0)
        + (IF p.skills # <<>> THEN Min(20, Len(p.skills) * 2) ELSE 0)
        + (IF p.education # <<>> THEN Min(15, Len(p.education) * 7) ELSE 0)
        + (IF p.certifications # <<>> THEN 3 ELSE 0)
        + (IF p.projects # <<>> THEN 3 ELSE 0)
        + (IF p.languages # <<>> THEN 2 ELSE 0)
        + (IF p.volunteer_experience # <<>> THEN 2 ELSE 0)
    IN  Min(100, score)

\* ProfileAnalyzer._calculate_skill_relevance, line 198: `if not
\* profile.skills: return 0`
skills_guard_Absent(p) == FALSE
skills_guard(p) == p.skills = <<>>

\* Line 215: the division `(trending_count * 2 + technical_count) /
\* total_skills` a call performs, if it reaches it
NoDivision == [performed |-> FALSE, dividend |-> 0, divisor |-> 0]
skill_relevance_division(p) ==
    IF skills_guard(p) THEN NoDivision
    ELSE [performed |-> TRUE,
          dividend |-> Sum([i \in 1..Len(p.skills) |-> trending_matches(p.skills[i])]) * 2
                       + Sum([i \in 1..Len(p.skills) |-> technical_matches(p.skills[i])]),
          divisor |-> Len(p.skills)]

\* ProfileAnalyzer._calculate_skill_relevance, lines 196-217, for a call that
\* does not divide by zero
calculate_skill_relevance(p) ==
    LET division == skill_relevance_division(p)
    IN  IF ~division.performed THEN 0
        ELSE Min(100, TruncDiv(division.dividend * 50, division.divisor))

\* ProfileAnalyzer._calculate_experience_value, lines 219-249
calculate_experience_value(p, t_now) ==
    IF p.experience = <<>> THEN 0
    ELSE LET years == get_years_of_experience(p, t_now)
             quality_score ==
                 10 * Cardinality({i \in 1..Len(p.experience) :
                                     /\ p.experience[i].company # ""
                                     /\ is_well_known(p.experience[i].company)})
             progression_score ==
                 5 * Cardinality({i \in 1..Len(p.experience) :
                                    has_progression_keyword(p.experience[i].title)})
         IN  Min(100, Min(40, years * 3) + Min(30, quality_score) + Min(30, progression_score))

\* ProfileAnalyzer._calculate_market_competitiveness, lines 251-265:
\* int(completeness * 0.3 + skill_relevance * 0.4 + experience_value * 0.3),
\* here in exact arithmetic (the rounding of the binary floating-point
\* products, which can move a sum that is a whole number by one, is left out)
calculate_market_competitiveness(p, t_now) ==
    TruncDiv(3 * calculate_completeness_score(p) + 4 * calculate_skill_relevance(p)
             + 3 * calculate_experience_value(p, t_now), 10)

\* ProfileAnalyzer._assess_market_demand, lines 342-356
assess_market_demand(p, t_now) ==
    LET twice_average == calculate_skill_relevance(p) + calculate_experience_value(p, t_now)
    IN  IF twice_average >= 160 THEN "Very High"
        ELSE IF twice_average >= 120 THEN "High"
        ELSE IF twice_average >= 80 THEN "Medium"
        ELSE "Low"

\* ProfileAnalyzer._analyze_industry_focus, lines 95-127: the industries, in
\* the order of the dict, with a keyword in the titles and companies of the
\* experience, the skill names or the headline; the first three of them
analyze_industry_focus(p) ==
    LET matched == UNION ({industries_in(p.experience[i].title) : i \in 1..Len(p.experience)}
                          \cup {industries_in(p.experience[i].company) : i \in 1..Len(p.experience)}
                          \cup {industries_in(p.skills[i]) : i \in 1..Len(p.skills)}
                          \cup {industries_in(p.headline)})
        Matched(industry) == industry \in matched
    IN  FirstN(SelectSeq(industry_order, Matched), 3)

\* ProfileAnalyzer._categorize_skills, lines 129-163: categorized['technical'],
\* the skills that contain an entry of skill_categories['technical'] ('technical'
\* is the first category tried, line 148)
categorize_skills_technical(p) ==
    LET IsTechnical(skill) == technical_matches(skill) > 0
    IN  SelectSeq(p.skills, IsTechnical)

\* ProfileAnalyzer._estimate_salary_range, lines 365-370: base_ranges
base_ranges(career_level) ==
    CASE career_level = "Entry-Level" -> [min |-> 45000, max |-> 70000]
      [] career_level = "Senior" -> [min |-> 110000, max |-> 160000]
      [] career_level = "Executive" -> [min |-> 160000, max |-> 300000]
      [] OTHER -> [min |-> 70000, max |-> 110000]

\* Lines 375-380: industry_multipliers, in hundredths; 100 for an industry
\* that is not in the table
industry_multiplier(industry) ==
    CASE industry = "Technology" -> 120
      [] industry = "Finance" -> 115
      [] industry \in {"Healthcare", "Consulting"} -> 110
      [] OTHER -> 100

\* Lines 382-385: the largest multiplier of the industries, 1.0 at least
market_multiplier(industries) ==
    LET ms == {100} \cup {industry_multiplier(industries[i]) : i \in 1..Len(industries)}
    IN  CHOOSE m \in ms : \A n \in ms : n <= m

\* Lines 389-390: int(base * multiplier), a product of binary floating-point
\* numbers cut to an integer.  The float 1.15 is below 1.15, and the products
\* 45000 * 1.15 and 110000 * 1.15 are the floats just below 51750 and 126500,
\* which int() cuts to 51749 and 126499; every other product of a base and a
\* multiplier of the two tables is the whole number itself.
int_times(base, multiplier) ==
    IF multiplier = 115 /\ base \in {45000, 110000}
    THEN (base * multiplier) \div 100 - 1
    ELSE (base * multiplier) \div 100

\* ProfileAnalyzer._estimate_salary_range, lines 358-398; the years are read
\* at t_years (line 360), the career level at t_level (line 361)
estimate_salary_range(p, t_years, t_level) ==
    LET years_exp == get_years_of_experience(p, t_years)
        career_level == determine_career_level(p, t_level)
        industries == analyze_industry_focus(p)
        base_range == base_ranges(career_level)
        multiplier == market_multiplier(industries)
    IN  [currency |-> "USD",
         min_salary |-> int_times(base_range.min, multiplier),
         max_salary |-> int_times(base_range.max, multiplier),
         confidence |-> "Medium",
         factors |-> [experience_years |-> years_exp,
                      career_level |-> career_level,
                      primary_industry |-> IF industries # <<>> THEN industries[1]
                                           ELSE "General",
                      market_multiplier |-> multiplier]]

\* ProfileAnalyzer._calculate_confidence_score, lines 400-415, in hundredths
\* and in exact arithmetic (the sum of the binary floating-point numbers can
\* be one unit in the last place away from it)
calculate_confidence_score_Unclamped(completeness, industry_focus, technical, experience_value) ==
    completeness
    + (IF industry_focus # <<>> THEN 10 ELSE 0)
    + (IF technical # <<>> THEN 10 ELSE 0)
    + (IF experience_value > 50 THEN 10 ELSE 0)
calculate_confidence_score(completeness, industry_focus, technical, experience_value) ==
    Min(100, completeness
             + (IF industry_focus # <<>> THEN 10 ELSE 0)
             + (IF technical # <<>> THEN 10 ELSE 0)
             + (IF experience_value > 50 THEN 10 ELSE 0))

\* ProfileAnalysis.analyzed_at, profile.py line 272: field(default_factory=
\* datetime.now), read when the result is made (analyzer.py line 47)
analyzed_at_default_AtImport(t_now) == StartTime
analyzed_at_default(t_now) == t_now

\* The places of a run of analyze_profile that read datetime.now(), in the
\* order of the run: line 47 (analyzed_at), and get_years_of_experience
\* (profile.py line 218) called through line 50 (career level), line 57
\* (experience value), line 58 (market competitiveness), line 66 (market
\* demand) and line 67 (salary: lines 360 and 361)
clock_reads ==
    <<"analyzed_at", "career_level", "experience_value", "market_competitiveness",
      "market_demand", "salary_years", "salary_level">>

\* The readings of a run that starts at time t: the first c reads give t, and
\* the clock has moved on to t + 1 for the reads after them
Readings(t, c) ==
    [r \in {clock_reads[k] : k \in 1..Len(clock_reads)} |->
        IF (CHOOSE k \in 1..Len(clock_reads) : clock_reads[k] = r) <= c THEN t ELSE t + 1]

\* ProfileAnalyzer.analyze_profile, lines 43-72: the result of a run on p
\* whose clock readings are `clock`
ProfileAnalysis(p, clock) ==
    LET completeness == calculate_completeness_score(p)
        experience_value == calculate_experience_value(p, clock.experience_value)
        industry_focus == analyze_industry_focus(p)
        technical == categorize_skills_technical(p)
    IN  [profile_id |-> p.profile_url,
         career_level |-> determine_career_level(p, clock.career_level),
         industry_focus |-> industry_focus,
         skill_categories |-> [technical |-> technical],
         profile_completeness_score |-> completeness,
         skill_relevance_score |-> calculate_skill_relevance(p),
         experience_value_score |-> experience_value,
         market_competitiveness_score |->
             calculate_market_competitiveness(p, clock.market_competitiveness),
         market_demand |-> assess_market_demand(p, clock.market_demand),
         salary_estimate |-> estimate_salary_range(p, clock.salary_years, clock.salary_level),
         confidence_score |->
             calculate_confidence_score(completeness, industry_focus, technical, experience_value),
         analyzed_at |-> analyzed_at_default(clock.analyzed_at),
         analysis_version |-> "1.0"]

\* What a run raises
AttributeError == [raised |-> "AttributeError"]
ZeroDivisionError == [raised |-> "ZeroDivisionError"]
Raised(a) == "raised" \in DOMAIN a

\* The entry of an experience list is an ExperienceItem (it has the
\* attributes .title, .start_date, ...), not a dict
IsExperienceItem(exp) == "start_date" \in DOMAIN exp

\* What a run of analyze_profile on p gives: the result, or the exception
\* that leaves it.  `exp.start_date` (profile.py line 214, reached from line
\* 50) raises AttributeError for an entry that is a dict; the division of
\* line 215 raises ZeroDivisionError for a zero divisor.
analyze_profile_outcome(p, clock) ==
    IF \E i \in 1..Len(p.experience) : ~IsExperienceItem(p.experience[i])
    THEN AttributeError
    ELSE IF skill_relevance_division(p).performed /\ skill_relevance_division(p).divisor = 0
    THEN ZeroDivisionError
    ELSE ProfileAnalysis(p, clock)

\* A run of analyze_profile on the record p; the clock moves on by at most
\* one second while it runs
analyze_run(p) ==
    \E c \in 1..Len(clock_reads) :
        /\ c < Len(clock_reads) => now < MaxTime
        /\ now' = IF c < Len(clock_reads) THEN now + 1 ELSE now
        /\ analyses' = Append(analyses, [at |-> now, until |-> now',
                                         analysis |-> analyze_profile_outcome(p, Readings(now, c))])

\* A run of analyze_profile on the record
analyze_profile ==
    /\ Len(analyses) < MaxAnalyzeCalls
    /\ analyze_run(profile)
    /\ UNCHANGED <<engine_vars, task_vars, api_vars, ext_vars, profile, mw_vars>>

InitAnalyze ==
    /\ EngineFresh
    /\ TasksIdle
    /\ ApiIdle
    /\ ExtractIdle
    /\ profile \in Profiles
    /\ analyses = <<>>
    /\ MiddlewareIdle

NextAnalyze ==
    \/ Tick
    \/ analyze_profile

SpecAnalyze == InitAnalyze /\ [][NextAnalyze]_vars

\* ------------------------------------------- the extractor, then the analyzer
\* The analyzer run on the records the extractor returns: the record that
\* extract_linkedin_profile_data returns (scraping.py line 261) is the
\* argument of analyze_profile (analyzer.py line 43; given to it by
\* analyze_profile_background, api/__init__.py lines 276-282).

\* The pages: with a name or without, with 0..MaxExperienceElems experience
\* sections, with no, one or MaxSkillElems skill elements
PipelineHtmls ==
    {Html(n, NoMatches, NoMatches, ExperienceSections(e, "all"), SkillsElements(k, "all")) :
        n \in {NoMatches, [NoMatches EXCEPT ![1] = Element("first")]},
        e \in 0..MaxExperienceElems,
        k \in {0, 1, MaxSkillElems}}

\* analyze_profile(profile_data) for the next record the extractor returned
\* that has not been analysed
analyze_extracted_profile ==
    /\ Len(analyses) < Len(extracted)
    /\ extracted[Len(analyses) + 1].profile_data # NoProfileData
    /\ profile' = extracted[Len(analyses) + 1].profile_data
    /\ analyze_run(profile')
    /\ UNCHANGED <<engine_vars, task_vars, api_vars, ext_vars, mw_vars>>

InitPipeline ==
    /\ EngineFresh
    /\ TasksIdle
    /\ ApiIdle
    /\ scraped_data \in {NoScrapedData}
                         \cup {ScrapedData(u, h) : u \in Urls, h \in {EmptyHtml} \cup PipelineHtmls}
    /\ extracted = <<>>
    /\ AnalyzeIdle
    /\ MiddlewareIdle

NextPipeline ==
    \/ Tick
    \/ extract_linkedin_profile_data
    \/ analyze_extracted_profile

SpecPipeline == InitPipeline /\ [][NextPipeline]_vars

\* --------------------------------------------- the rate-limit middleware
\* RateLimitMiddleware, middleware.py lines 45-87.  dispatch has no await
\* before `await call_next(request)` (line 86): the check and the append are
\* one step of the event loop.

\* request.client.host
ClientIps == {"10.0.0.1", "10.0.0.2"}

\* max(timestamps)
Max(timestamps) ==
    CHOOSE m \in {timestamps[i] : i \in 1..Len(timestamps)} :
        \A i \in 1..Len(timestamps) : timestamps[i] <= m

\* Line 72: len(self.clients[client_ip]) >= self.calls
limit_reached_Above(n) == n > calls
limit_reached(n) == n >= calls

\* RateLimitMiddleware.dispatch, lines 54-87, up to the call of the
\* application (admitted) or the 429 answer
dispatch ==
    /\ Len(dispatched) < MaxDispatches
    /\ \E client_ip \in ClientIps :
          LET current_time == now
              Recent(ts) == ts > current_time - period
              \* lines 59-62
              live == {ip \in DOMAIN clients :
                          clients[ip] # <<>> /\ Max(clients[ip]) > current_time - period}
              \* lines 67-70
              kept == IF client_ip \in live THEN SelectSeq(clients[client_ip], Recent)
                      ELSE <<>>
              rejected == client_ip \in live /\ limit_reached(Len(kept))
          IN  /\ clients' = [ip \in live \cup {client_ip} |->
                                IF ip # client_ip THEN clients[ip]
                                ELSE IF rejected THEN kept
                                ELSE Append(kept, current_time)]
              /\ dispatched' = Append(dispatched, [client_ip |-> client_ip,
                                                   at |-> current_time,
                                                   admitted |-> ~rejected])
    /\ UNCHANGED <<now, engine_vars, task_vars, api_vars, ext_vars, ana_vars>>

InitRateLimit ==
    /\ EngineFresh
    /\ TasksIdle
    /\ ApiIdle
    /\ ExtractIdle
    /\ AnalyzeIdle
    /\ MiddlewareIdle

NextRateLimit ==
    \/ Tick
    \/ dispatch

SpecRateLimit == InitRateLimit /\ [][NextRateLimit]_vars

\* ------------------------------------------------------------------ claims

\* The events of kind k that strategy s of task t has logged
Events(t, s, k) == {i \in 1..Len(log[t]) : log[t][i] = Event(s, k)}

\* Event i of task t comes after an event of kind k of the same strategy
Preceded(t, i, k) ==
    \E j \in 1..(i - 1) : log[t][j] = Event(log[t][i].strategy, k)

\* C1: smart_scrape without the rendered-first hint invokes the rendered
\* strategy exactly once when the lightweight strategy failed or returned
\* content of at most 100 characters, and does not invoke it, returning the
\* lightweight result, when that content is longer than 100 characters.
C1_FallbackDecidedByRichness ==
    \A t \in Tasks :
        /\ sel_calls[t] <= 1
        /\ (pc[t] = "done" /\ ~prefer_selenium[t]) =>
              IF req_result[t] # None /\ req_result[t].len > 100
              THEN sel_calls[t] = 0 /\ result[t] = req_result[t]
              ELSE sel_calls[t] = 1

\* C1 witness: a lightweight result of exactly 100 characters was followed by
\* one invocation of the rendered strategy.
C1_Witness ==
    \E t \in Tasks :
        /\ pc[t] = "done" /\ ~prefer_selenium[t]
        /\ req_result[t] = FetchResult("requests", 100)
        /\ sel_calls[t] = 1

\* C2 as claimed: an orchestration that reached the rendered strategy returns
\* a result only if that result's content is longer than the threshold.
C2_RenderedResultMustBeRich ==
    \A t \in Tasks :
        (pc[t] = "done" /\ sel_calls[t] > 0 /\ result[t] # None) => result[t].len > 100

\* C2 amended: an orchestration that reached the rendered strategy returns
\* exactly what the rendered strategy returned: its result whatever the length
\* of the content, None when it failed; the rendered strategy ran once and no
\* strategy runs after it.
C2_RenderedResultReturned ==
    \A t \in Tasks :
        (pc[t] = "done" /\ sel_calls[t] > 0 /\ t \notin raised) =>
            /\ result[t] = sel_result[t]
            /\ sel_calls[t] = 1
            /\ Len(log[t]) > 0 => log[t][Len(log[t])].strategy = "selenium"
                                  \/ Events(t, "selenium", "driver_get") = {}

\* C2 witness: the rendered strategy returned a page with empty content and the
\* orchestration returned it.
C2_Witness ==
    \E t \in Tasks :
        /\ pc[t] = "done" /\ sel_calls[t] = 1
        /\ result[t] = FetchResult("selenium", 0)

\* C3: an orchestration invokes each strategy at most once, each strategy
\* takes its turn at the rate governor and issues its fetch at most once (a
\* failure is not retried), no exception leaves the orchestrator, a call that
\* holds the thread can always take its next step, and it ends with a result
\* (DONE) or None (FAILED).
C3_OneShotNoRaise ==
    \A t \in Tasks :
        /\ req_calls[t] <= 1 /\ sel_calls[t] <= 1
        /\ \A s \in {"requests", "selenium"} :
              \A k \in {"robots_fetch", "rate_turn", "session_get", "driver_get"} :
                  Cardinality(Events(t, s, k)) <= 1
        /\ t \notin raised
        /\ running = {t} => ENABLED TaskNext(t)
        /\ pc[t] = "done" => result[t] \in Results

\* C3 witness: both strategies failed at their fetch, each once, and the
\* orchestration ended FAILED.
C3_Witness ==
    \E t \in Tasks :
        /\ pc[t] = "done" /\ result[t] = None
        /\ req_calls[t] = 1 /\ sel_calls[t] = 1
        /\ Events(t, "requests", "session_get") # {}
        /\ Events(t, "selenium", "driver_get") # {}

\* C4: the engine's first _respect_rate_limit is not delayed; every later
\* completion is stamped at least REQUEST_DELAY_MIN after the completion before
\* it and after the last completion for the same host, whichever strategies
\* made the calls; the request counter counts the completions one by one.
C4_MinimumSpacing ==
    /\ request_count = rl_last.n
    /\ rl_last.n = 1 => rl_last.slept = 0
    /\ rl_last.n > 1 => rl_last.stamp - rl_last.prev_stamp >= REQUEST_DELAY_MIN
    /\ rl_last.prev_same_host > 0 =>
           rl_last.stamp - rl_last.prev_same_host >= REQUEST_DELAY_MIN

\* C4 witness: a call for a host that was just served had to sleep.
C4_Witness ==
    /\ rl_last.n >= 2
    /\ rl_last.prev_host = rl_last.host
    /\ rl_last.slept > 0

C6_GovernorAtomic ==
    /\ \A t \in Tasks : pc[t] \in SleepPcs => rl_seen[t] = last_request_time
    /\ \A t, u \in Tasks : (pc[t] \in SleepPcs /\ pc[u] \in SleepPcs) => t = u
    /\ (rl_last.n > 1 /\ rl_last.prev_host = rl_last.host) =>
           rl_last.stamp - rl_last.prev_stamp >= REQUEST_DELAY_MIN

\* C6 witness: a caller sleeps in the governor while another request for the
\* same host is pending on the event loop.
C6_Witness ==
    \E t, u \in Tasks :
        /\ t # u
        /\ pc[t] \in SleepPcs /\ rl_sleep[t] > 0
        /\ pc[u] = "ready"
        /\ netloc(url[u]) = netloc(url[t])

\* C7 as claimed: every network call of a strategy (the request for the
\* exclusion rules included) comes after the strategy's turn at the governor.
C7_GovernorBeforeAnyNetworkCall ==
    \A t \in Tasks :
        \A i \in 1..Len(log[t]) :
            log[t][i].kind \in {"robots_fetch", "session_get", "driver_get"} =>
                Preceded(t, i, "rate_turn")

\* C7 amended: the page request of a strategy (session.get, driver.get) comes
\* after the strategy's turn at the governor; the lightweight strategy's
\* request for the exclusion rules comes before that turn.
C7_GovernorBeforePageFetch ==
    \A t \in Tasks :
        \A i \in 1..Len(log[t]) :
            /\ log[t][i].kind \in {"session_get", "driver_get"} =>
                   Preceded(t, i, "rate_turn")
            /\ log[t][i] = Event("requests", "rate_turn") =>
                   Preceded(t, i, "robots_fetch")

\* C7 witness: both strategies issued their page request in one orchestration.
C7_Witness ==
    \E t \in Tasks :
        /\ Events(t, "requests", "session_get") # {}
        /\ Events(t, "selenium", "driver_get") # {}

\* C8: in scrape_linkedin_profile the policy checker is consulted for the url
\* before the governor is applied and before any fetch of the url is issued.
C8_PolicyBeforeGovernor ==
    \A t \in Tasks :
        entry[t] = "scrape_linkedin_profile" =>
            \A i \in 1..Len(log[t]) :
                log[t][i].kind \in {"rate_turn", "session_get", "driver_get"} =>
                    \E j \in 1..(i - 1) : log[t][j].kind = "robots_fetch"

\* C9: whenever the exclusion rules could not be fetched or parsed,
\* check_robots_txt answers True, and it does not raise.
C9_FailsOpen ==
    \A t \in Tasks :
        /\ (pc[t] = "req_gate" /\ robots_outcome[t] \in RulesUnavailable) => robots_allowed[t]
        /\ pc[t] = "req_gate" => t \notin raised

C11_DeniedUrlStillFetched ==
    [][\A t \in Tasks :
          (pc[t] = "req_gate" /\ pc'[t] # "req_gate") => pc'[t] = "req_rate"]_vars

\* C11 amended: a "not allowed" answer makes the lightweight strategy return
\* None at once, with no turn at the rate governor and no page request; an
\* allowed url goes on to the governor.  smart_scrape treats the denial like
\* any other lightweight failure: its next step is the rendered strategy.
C11_DeniedUrlNotFetchedByRequests ==
    [][\A t \in Tasks :
          /\ (pc[t] = "req_gate" /\ pc'[t] # "req_gate") =>
                IF robots_allowed[t]
                THEN pc'[t] = "req_rate"
                ELSE /\ pc'[t] = "after_req"
                     /\ req_result'[t] = None
                     /\ log'[t] = log[t]
                     /\ request_count' = request_count
                     /\ last_request_time' = last_request_time
          /\ (pc[t] = "after_req" /\ req_result[t] = None /\ pc'[t] # "after_req") =>
                pc'[t] = "sel_setup" /\ sel_calls'[t] = 1]_vars

\* C11 witness: the lightweight strategy has returned None for a url the
\* rules deny, having made no page request and taken no turn at the governor.
C11_Witness ==
    \E t \in Tasks :
        /\ pc[t] = "after_req"
        /\ req_result[t] = None
        /\ Events(t, "requests", "robots_fetch") # {}
        /\ Events(t, "requests", "rate_turn") = {}
        /\ Events(t, "requests", "session_get") = {}

\* C12: the scrape endpoint rejects with the invalid-input error (400), before
\* any call of the fetch pipeline or the rate governor, every string that does
\* not match the profile-URL pattern, and never rejects as invalid a string
\* that matches it.
C12_PatternIsThePrecondition ==
    (endpoint = "scrape" /\ api_pc \in {"scrape_fetch", "responded"}) =>
        IF validate_linkedin_url(profile_url)
        THEN response.code # 400
        ELSE response.code = 400 /\ pipeline_calls = 0

\* C13: a batch of more than 10 urls is answered with the rejection and none
\* of its urls is processed: the step that rejects it, and every state after
\* it, has no pipeline call, no result entry and the rate governor's stamp and
\* counter as they were when the request arrived.
C13_OversizedBatchRejectedBeforeAnyFetch ==
    /\ [](  (endpoint = "batch" /\ Len(profile_urls) > 10 /\ api_pc # "batch_check") =>
               /\ api_pc = "responded"
               /\ response.code = 400
               /\ pipeline_calls = 0
               /\ results = <<>>)
    /\ [][(endpoint = "batch" /\ Len(profile_urls) > 10) =>
             UNCHANGED <<request_count, last_request_time, selenium_driver, now>>]_vars

\* C13 witness: a batch of 11 urls, all of them profile URLs, was rejected.
C13_Witness ==
    /\ endpoint = "batch" /\ api_pc = "responded"
    /\ Len(profile_urls) = 11
    /\ \A i \in 1..11 : startswith_profile_prefix(profile_urls[i])
    /\ response.code = 400

\* C14: a batch of at most 10 urls is always carried to its end: while urls
\* remain the loop can take its next turn whatever happened to the urls before,
\* the entries made so far are those of the urls handled so far, in input
\* order, each success or error, and the answer counts them: successful +
\* failed = total_profiles = number of urls.
C14_OneEntryPerUrl ==
    (endpoint = "batch" /\ Len(profile_urls) <= 10 /\ api_pc # "batch_check") =>
        /\ api_pc \in {"batch_loop", "responded"}
        /\ api_pc = "batch_loop" => /\ ENABLED (batch_item \/ batch_return)
                                    /\ Len(results) = batch_i - 1
        /\ \A i \in 1..Len(results) :
              /\ results[i].url = profile_urls[i]
              /\ results[i].status \in {"success", "error"}
        /\ api_pc = "responded" =>
              /\ Len(results) = Len(profile_urls)
              /\ response.code = 200
              /\ response.total_profiles = Len(profile_urls)
              /\ response.successful + response.failed = response.total_profiles
              /\ response.successful =
                    Cardinality({i \in 1..Len(results) : results[i].status = "success"})

\* C14 witness: a batch of 10 urls was answered in which one item failed (a
\* url that is not a profile URL at the first place, or a failed fetch or
\* serialization) and a later one succeeded.
C14_Witness ==
    /\ endpoint = "batch" /\ api_pc = "responded"
    /\ Len(profile_urls) = 10
    /\ \E i, j \in 1..Len(results) :
          i < j /\ results[i].status = "error" /\ results[j].status = "success"
    /\ response.failed >= 1 /\ response.successful >= 1

\* The records the extractor's calls have returned
Returned == {extracted[i].profile_data : i \in 1..Len(extracted)} \ {NoProfileData}

\* The fetch result has markup that yields a name and at least one of
\* headline, experience, skills
MinimumViable(sd) ==
    /\ sd # NoScrapedData
    /\ sd.html # EmptyHtml
    /\ has_minimum_data(extract_profile_data(sd, StartTime))

\* C15: the extractor returns None exactly when the minimum viable fields are
\* absent (no name, or none of headline, experience, skills); otherwise it
\* returns a record.
C15_NullExactlyWhenMinimumAbsent ==
    \A i \in 1..Len(extracted) :
        (extracted[i].profile_data = NoProfileData) <=> ~MinimumViable(scraped_data)

\* v is the content of the first rule of m, in list order, that matched an
\* element with non-empty content; the empty default when there is none
IsFirstNonEmpty(m, v) ==
    LET hit(k) == m[k].found /\ m[k].text # ""
    IN  \/ \E k \in 1..3 : hit(k) /\ v = m[k].text /\ \A j \in 1..(k - 1) : ~hit(j)
        \/ v = "" /\ \A k \in 1..3 : ~hit(k)

\* v is the content of the first rule of m, in list order, that matched an
\* element; the empty default when no rule matched
IsFirstFound(m, v) ==
    \/ \E k \in 1..3 : m[k].found /\ v = m[k].text /\ \A j \in 1..(k - 1) : ~m[j].found
    \/ v = "" /\ \A k \in 1..3 : ~m[k].found

IsList(l) == DOMAIN l = 1..Len(l)

\* C17: a returned record has at most 5 experience entries and at most 20
\* skill entries however many elements matched, and each of its list fields
\* is a list, empty when nothing matched.
C17_ListsCapped ==
    \A r \in Returned :
        /\ Len(r.experience) <= 5
        /\ Len(r.skills) <= 20
        /\ IsList(r.experience) /\ IsList(r.skills) /\ IsList(r.education)
        /\ IsList(r.certifications) /\ IsList(r.projects) /\ IsList(r.languages)
        /\ IsList(r.volunteer_experience)
        /\ scraped_data.html.experience_sections = <<>> => r.experience = <<>>
        /\ scraped_data.html.skills_elements = <<>> => r.skills = <<>>
        /\ r.education = <<>>

\* C17 witness: a page with 6 experience sections and 21 skill elements gave
\* a record with 5 experience entries and 20 skills.
C17_Witness ==
    \E r \in Returned :
        /\ Len(scraped_data.html.experience_sections) = 6
        /\ Len(scraped_data.html.skills_elements) = 21
        /\ Len(r.experience) = 5
        /\ Len(r.skills) = 20

\* C18 as claimed: two calls on the same fetch result, at any two times,
\* return records identical in every field, the metadata fields included.
C18_IdenticalInEveryField ==
    \A i, j \in 1..Len(extracted) : extracted[i].profile_data = extracted[j].profile_data

\* C18 amended: two calls on the same fetch result return None both, or
\* records identical in every field but scraped_at, which is the time of the
\* call that made the record.
C18_IdenticalButScrapedAt ==
    \A i, j \in 1..Len(extracted) :
        LET p == extracted[i].profile_data
            q == extracted[j].profile_data
        IN  IF p = NoProfileData \/ q = NoProfileData
            THEN p = q
            ELSE /\ [p EXCEPT !.scraped_at = 0] = [q EXCEPT !.scraped_at = 0]
                 /\ p.scraped_at = extracted[i].at

\* C18 witness: two calls at different times returned records that differ in
\* scraped_at.
C18_Witness ==
    /\ Len(extracted) >= 2
    /\ extracted[1].profile_data # NoProfileData
    /\ extracted[2].profile_data # NoProfileData
    /\ extracted[1].at < extracted[2].at
    /\ extracted[1].profile_data.scraped_at # extracted[2].profile_data.scraped_at

\* The record has a position that is measured up to datetime.now()
HasCurrentPosition(p) ==
    \E i \in 1..Len(p.experience) :
        /\ p.experience[i].start_date.given
        /\ ~p.experience[i].end_date.given
        /\ p.experience[i].is_current

\* C19 as claimed: two runs on the same record, at any two clock readings,
\* give results identical in every field.
C19_IdenticalInEveryField ==
    \A i, j \in 1..Len(analyses) : analyses[i].analysis = analyses[j].analysis

\* C19 amended: two runs on the same record give results that are identical
\* in every field when they start at the same clock reading and the clock
\* does not move while they run; otherwise they agree on the record's identifier and on the completeness and
\* skill relevance scores, differ in analyzed_at, which is the time of the
\* run, and agree on every field but analyzed_at unless the record has a
\* current position; no run changes the record.
C19_IdenticalButClockFields ==
    /\ [](\A i, j \in 1..Len(analyses) :
            LET a == analyses[i].analysis
                b == analyses[j].analysis
            IN  /\ a.analyzed_at = analyses[i].at
                /\ (/\ analyses[i].at = analyses[j].at
                    /\ analyses[i].until = analyses[i].at
                    /\ analyses[j].until = analyses[j].at) => a = b
                /\ a.profile_id = b.profile_id
                /\ a.profile_completeness_score = b.profile_completeness_score
                /\ a.skill_relevance_score = b.skill_relevance_score
                /\ ~HasCurrentPosition(profile) =>
                       [a EXCEPT !.analyzed_at = 0] = [b EXCEPT !.analyzed_at = 0])
    /\ [][profile' = profile]_vars

\* C19 witness: two runs at different clock readings on a record with a
\* current position gave different career levels.
C19_Witness ==
    \E i, j \in 1..Len(analyses) :
        /\ analyses[i].at < analyses[j].at
        /\ HasCurrentPosition(profile)
        /\ analyses[i].analysis.career_level = "Entry-Level"
        /\ analyses[j].analysis.career_level = "Mid-Level"

\* C20: in every result each of the four scores is in 0..100.
C20_ScoresInRange ==
    \A i \in 1..Len(analyses) :
        LET a == analyses[i].analysis
        IN  /\ a.profile_completeness_score \in 0..100
            /\ a.skill_relevance_score \in 0..100
            /\ a.experience_value_score \in 0..100
            /\ a.market_competitiveness_score \in 0..100

\* C21: in every result the confidence (in hundredths) is in 0..100 and is
\* the completeness score plus 10 for each of: a non-empty industry focus, at
\* least one technical skill, an experience value above 50; 100 when that sum
\* is above 100.
C21_ConfidenceIsClampedSum ==
    \A i \in 1..Len(analyses) :
        LET a == analyses[i].analysis
            bonuses == (IF Len(a.industry_focus) > 0 THEN 1 ELSE 0)
                       + (IF Len(a.skill_categories.technical) > 0 THEN 1 ELSE 0)
                       + (IF a.experience_value_score > 50 THEN 1 ELSE 0)
            total == a.profile_completeness_score + 10 * bonuses
        IN  /\ a.confidence_score \in 0..100
            /\ a.confidence_score = IF total > 100 THEN 100 ELSE total

\* C21 witness: a result with all three bonuses whose sum is above 100.
C21_Witness ==
    /\ Len(analyses) >= 1
    /\ LET a == analyses[1].analysis
       IN  /\ a.industry_focus # <<>>
           /\ a.skill_categories.technical # <<>>
           /\ a.experience_value_score > 50
           /\ a.profile_completeness_score + 30 > 100
           /\ a.confidence_score = 100

\* C22: the career level of a result is one of the four levels, and with the
\* years of experience as they are when the run reads the clock it is
\* Executive when the years are at least 15 or a title of the
\* experience contains a leadership keyword, otherwise Senior from 8 years,
\* otherwise Mid-Level from 3 years, otherwise Entry-Level.
C22_CareerLevelByTenureOrTitle ==
    \A i \in 1..Len(analyses) :
        \E t_read \in {analyses[i].at, analyses[i].until} :
            LET a == analyses[i].analysis
                years == get_years_of_experience(profile, t_read)
                leadership == \E k \in 1..Len(profile.experience) :
                                  has_leadership_keyword(profile.experience[k].title)
            IN  /\ a.career_level \in {"Entry-Level", "Mid-Level", "Senior", "Executive"}
                /\ a.career_level = "Executive" <=> (years >= 15 \/ leadership)
                /\ a.career_level = "Senior" <=> (years >= 8 /\ years < 15 /\ ~leadership)
                /\ a.career_level = "Mid-Level" <=> (years >= 3 /\ years < 8 /\ ~leadership)
                /\ a.career_level = "Entry-Level" <=> (years < 3 /\ ~leadership)

\* C22 witness: a record whose one position, of one year, has a leadership
\* title was given Executive.
C22_Witness ==
    /\ Len(analyses) >= 1
    /\ Len(profile.experience) = 1
    /\ profile.experience[1].title = "CTO"
    /\ get_years_of_experience(profile, analyses[1].at) = 1
    /\ analyses[1].analysis.career_level = "Executive"

\* C23: a record with an empty experience list, whatever its other fields,
\* is given the career level Entry-Level and the experience value 0.
C23_EmptyExperienceIsEntryLevel ==
    \A i \in 1..Len(analyses) :
        profile.experience = <<>> =>
            /\ analyses[i].analysis.career_level = "Entry-Level"
            /\ analyses[i].analysis.experience_value_score = 0

\* C23 witness: a record with no experience and with every other section the
\* model fills (name, headline with an industry keyword, summary, location,
\* image) was analysed.
C23_Witness ==
    /\ Len(analyses) >= 1
    /\ profile.experience = <<>>
    /\ profile.headline = "Software Engineer"
    /\ profile.summary # ""
    /\ analyses[1].analysis.profile_completeness_score > 0
    /\ analyses[1].analysis.career_level = "Entry-Level"

\* C24: a run on a record with an empty skills list performs no division and
\* gives the skill relevance 0; a run on a record with skills divides by the
\* number of skills, which is not zero.
C24_NoDivisionByZeroSkills ==
    \A i \in 1..Len(analyses) :
        LET division == skill_relevance_division(profile)
        IN  IF Len(profile.skills) = 0
            THEN /\ ~division.performed
                 /\ analyses[i].analysis.skill_relevance_score = 0
            ELSE /\ division.performed
                 /\ division.divisor = Len(profile.skills)
                 /\ division.divisor # 0
                 /\ ~Raised(analyses[i].analysis)

\* C24 witness: a record with no skills and an experience list was analysed,
\* and its skill relevance is 0.
C24_Witness ==
    /\ Len(analyses) >= 1
    /\ profile.skills = <<>>
    /\ profile.experience # <<>>
    /\ profile.name # ""
    /\ analyses[1].analysis.skill_relevance_score = 0

\* C25: a run of the analyzer returns a result and raises nothing, for every
\* record the extractor returns.
C25_AnalyzeIsTotal ==
    \A i \in 1..Len(analyses) : ~Raised(analyses[i].analysis)

\* C30: every record the extractor returns has the fetched url as its
\* profile_url, and the result of its analysis has that url, which is not
\* empty, as its profile_id.
C30_KeyedBySourceUrl ==
    /\ \A r \in Returned : r.profile_url = scraped_data.url
    /\ \A i \in 1..Len(analyses) :
          ~Raised(analyses[i].analysis) =>
              /\ analyses[i].analysis.profile_id = scraped_data.url
              /\ analyses[i].analysis.profile_id # ""

\* The calls that hold the driver: past _setup_selenium (line 135) and not yet
\* past the read of the page (line 150)
DriverUsers == {t \in Tasks : pc[t] \in {"sel_rate", "sel_sleep", "sel_get"}}

\* C28: the engine has one driver slot: it is filled only by _setup_selenium
\* of the call that runs, when it is empty, kept by every later call, and
\* emptied only by cleanup, when no call holds the driver; and at no time do
\* two calls hold the driver between its set-up and the read of the page, so
\* the driver never has two navigations in flight.
C28_OneDriverOneNavigation ==
    /\ [](Cardinality(DriverUsers) <= 1 /\ DriverUsers \subseteq running)
    /\ [][/\ (~selenium_driver /\ selenium_driver') =>
                \E t \in Tasks : running = {t} /\ pc[t] = "sel_setup" /\ pc'[t] # "sel_setup"
          /\ (selenium_driver /\ ~selenium_driver') =>
                /\ DriverUsers = {}
                /\ UNCHANGED <<pc, running, request_count, last_request_time>>
          /\ \A t \in Tasks :
                (pc[t] = "sel_get" /\ pc'[t] # "sel_get") => selenium_driver]_vars

\* C28 witness: a call is at its navigation, after another call has
\* finished and the governor has been passed twice, with the driver in place.
C28_Witness ==
    \E t, u \in Tasks :
        /\ t # u
        /\ pc[u] = "finished"
        /\ pc[t] = "sel_get" /\ selenium_driver
        /\ request_count >= 2

\* C26: a scrape request for a profile URL is answered with success when the
\* pipeline returned a record and with not-found when it returned none:
\* serializing the record never makes the answer an error.
C26_ExtractedRecordAnsweredWithSuccess ==
    [][(endpoint = "scrape" /\ api_pc = "scrape_fetch" /\ api_pc' = "responded") =>
          response'.code \in {200, 404}]_vars

\* C27: in every result the salary estimate's min and max are the base range
\* of the result's career level times the largest multiplier of the result's
\* industries (1.0 when none has one), min is at most max, and the career
\* level and primary industry of the estimate's factors are the result's own.
C27_SalaryFromReportedLevelAndIndustries ==
    \A i \in 1..Len(analyses) :
        LET a == analyses[i].analysis
            estimate == a.salary_estimate
            base == base_ranges(a.career_level)
            multiplier == market_multiplier(a.industry_focus)
        IN  /\ estimate.min_salary * 100 = base.min * multiplier
            /\ estimate.max_salary * 100 = base.max * multiplier
            /\ estimate.min_salary <= estimate.max_salary
            /\ estimate.factors.career_level = a.career_level
            /\ estimate.factors.primary_industry =
                   (IF a.industry_focus # <<>> THEN a.industry_focus[1] ELSE "General")

\* The admitted requests of client ip among the first n seen whose time is
\* in (t - period, t]
AdmittedInWindow(ip, n, t) ==
    {i \in 1..n : /\ dispatched[i].client_ip = ip
                  /\ dispatched[i].admitted
                  /\ dispatched[i].at > t - period
                  /\ dispatched[i].at <= t}

\* C29: for every client and every time t, at most `calls` admitted requests
\* of the client have a time in (t - period, t]; a request is answered 429
\* exactly when `calls` admitted requests of its own client lie in the window
\* that ends at it, whatever the other clients sent; and the timestamps kept
\* for a client are those of its admitted requests: a 429 adds none.
C29_WindowNeverExceedsCalls ==
    /\ \A ip \in ClientIps : \A t \in 0..(MaxTime + 1) :
          Cardinality(AdmittedInWindow(ip, Len(dispatched), t)) <= calls
    /\ \A i \in 1..Len(dispatched) :
          ~dispatched[i].admitted <=>
              Cardinality(AdmittedInWindow(dispatched[i].client_ip, i - 1, dispatched[i].at)) >= calls
    /\ \A ip \in DOMAIN clients : \A t \in 0..(MaxTime + 1) :
          Cardinality({k \in 1..Len(clients[ip]) : clients[ip][k] = t})
              <= Cardinality({i \in 1..Len(dispatched) :
                                 /\ dispatched[i].client_ip = ip
                                 /\ dispatched[i].admitted
                                 /\ dispatched[i].at = t})

\* C29 witness: a client was admitted `calls` times, then answered 429, then
\* admitted again once the window had passed, while the other client was
\* admitted in between.
C29_Witness ==
    \E i, j, k, l \in 1..Len(dispatched) :
        /\ i < j /\ j < k /\ k < l
        /\ dispatched[i].client_ip = dispatched[j].client_ip
        /\ dispatched[i].client_ip = dispatched[l].client_ip
        /\ dispatched[k].client_ip # dispatched[i].client_ip
        /\ ~dispatched[j].admitted
        /\ dispatched[k].admitted
        /\ dispatched[l].admitted
        /\ dispatched[l].at > dispatched[j].at

====
